---- MODULE Spec2Model ----
(***************************************************************************)
(* A model of the groq-client-rs chat client (src/src/chat.rs): the Chat   *)
(* builder around one ChatRequest, the buffered send(), the streaming      *)
(* stream() with its per-line closure, and the serde decoding of the       *)
(* service's JSON documents (ChatResponse, ChatChoice, ChatError).         *)
(***************************************************************************)
EXTENDS Integers, Sequences, FiniteSets, TLC

VARIABLES chat_request, last, calls, server, stream_rx, main

vars == <<chat_request, last, calls, server, stream_rx, main>>

(***************************************************************************)
(* Bounds of the model.                                                    *)
(***************************************************************************)
MaxCalls == 3
MaxMsgs == 2
MaxRemove == 3
MaxChoices == 2
MaxLines == 3
MaxSends == 2
MaxToolCalls == 2

(***************************************************************************)
(* Rust values.  Option<T> is a sequence of length 0 (None) or 1 (Some).   *)
(* An f32 is either NaN or a finite value counted in tenths (2.0 is 20).   *)
(***************************************************************************)
None == <<>>
Some(x) == <<x>>

F32(tenths) == [nan |-> FALSE, v |-> tenths]
NaN == [nan |-> TRUE, v |-> 0]

\* IEEE-754 comparisons, as Rust's `<`, `>` and `<=` on f32: false whenever
\* an operand is NaN.
f32_lt(a, b) == ~a.nan /\ ~b.nan /\ a.v < b.v
f32_gt(a, b) == ~a.nan /\ ~b.nan /\ a.v > b.v
f32_le(a, b) == ~a.nan /\ ~b.nan /\ a.v <= b.v

\* The f32 inputs the setters are tried with: below, at and above each limit
\* of the three ranges, interior values, and NaN.
F32Samples == {F32(-21), F32(-20), F32(0), F32(5), F32(10), F32(11), F32(20), F32(21), NaN}

\* usize arithmetic wraps modulo a power of two; every length and count of
\* the model is far below the modulus, so its exact width does not matter.
UsizeModulus == 2^30

\* `a - b` on usize in a build without overflow checks.
usize_wrapping_sub(a, b) == (a - b + UsizeModulus) % UsizeModulus

(***************************************************************************)
(* ChatMessage and the message values used as inputs.                      *)
(***************************************************************************)
ChatMessage_new(role, content, tool_call_id) ==
    [role |-> role, content |-> Some(content), tool_calls |-> None,
     tool_call_id |-> tool_call_id]

MsgUser == ChatMessage_new("user", "hello", None)
MsgAssistant == ChatMessage_new("assistant", "hi", None)
Messages == {MsgUser, MsgAssistant}

RECURSIVE SeqsUpTo(_, _)
SeqsUpTo(S, n) ==
    IF n = 0 THEN {<<>>}
    ELSE LET shorter == SeqsUpTo(S, n - 1)
         IN shorter \cup {Append(s, x) : s \in {t \in shorter : Len(t) = n - 1}, x \in S}

Models == {"deepseek-r1-distill-llama-70b", "llama3-8b"}
ChatResponseFormats == {"JsonObject", "JsonArray", "Text"}
ChatServiceTiers == {"OnDemand", "Auto", "Flex"}
ToolChoices == {"none", "auto", "required", "function:configure_cisco_switch"}
ToolSample == [name |-> "configure_cisco_switch", tool_type |-> "function"]

(***************************************************************************)
(* ChatRequest::new and Chat::new.                                         *)
(***************************************************************************)
ChatRequest_new(model, messages) ==
    [model |-> model,
     messages |-> messages,
     frequency_penalty |-> F32(0),
     max_completion_tokens |-> None,
     parallel_tool_calls |-> TRUE,
     presence_penalty |-> F32(0),
     reasoning_format |-> None,
     response_format |-> None,
     seed |-> None,
     service_tier |-> None,
     stream |-> FALSE,
     temperature |-> F32(10),
     top_p |-> F32(10),
     tool_choice |-> None,
     tools |-> <<>>]

Chat_new(model) == ChatRequest_new(model, <<>>)

\* The outcome of one builder call: what it returns and the request it leaves.
Ok(req) == [ret |-> "ok", req |-> req]
Err(req) == [ret |-> "err", req |-> req]
Panic(req) == [ret |-> "panic", req |-> req]

(***************************************************************************)
(* Conversation operations.                                                *)
(***************************************************************************)
set_chat_messages(req, messages) == Ok([req EXCEPT !.messages = messages])

get_chat_messages(req) == req.messages

add_chat_message(req, message) ==
    Ok([req EXCEPT !.messages = Append(req.messages, message)])

clear_chat_messages(req) == Ok([req EXCEPT !.messages = <<>>])

\* Vec::truncate(len): keeps the first len elements, no effect when len is
\* not below the current length.
truncate(v, len) == IF len >= Len(v) THEN v ELSE SubSeq(v, 1, len)

\* Vec::drain(0..n) with the drained elements dropped.
drain_front(v, n) == SubSeq(v, n + 1, Len(v))

\* The slip of truncating to n instead of to len - n.
remove_last_n_chat_messages_keep_n(req, n, overflow_checks) ==
    Ok([req EXCEPT !.messages = truncate(req.messages, n)])

\* `messages.len() - n` underflows when n exceeds the length: a build with
\* overflow checks panics there, a build without them wraps.
remove_last_n_chat_messages(req, n, overflow_checks) ==
    IF n > Len(req.messages) /\ overflow_checks
    THEN Panic(req)
    ELSE Ok([req EXCEPT !.messages =
                truncate(req.messages, usize_wrapping_sub(Len(req.messages), n))])

usize_min(a, b) == IF a <= b THEN a ELSE b

remove_first_n_chat_messages(req, n) ==
    LET to_remove == usize_min(n, Len(req.messages))
    IN Ok([req EXCEPT !.messages = drain_front(req.messages, to_remove)])

\* Vec::pop: nothing happens on an empty vector.
remove_last_chat_message(req) ==
    Ok([req EXCEPT !.messages =
           IF req.messages = <<>> THEN <<>> ELSE SubSeq(req.messages, 1, Len(req.messages) - 1)])

number_of_chat_messages(req) == Len(req.messages)

remove_first_chat_message(req) ==
    IF req.messages # <<>>
    THEN Ok([req EXCEPT !.messages = Tail(req.messages)])
    ELSE Ok(req)

(***************************************************************************)
(* Request configuration setters and getters.                              *)
(***************************************************************************)
set_model(req, model) == Ok([req EXCEPT !.model = model])

set_frequency_penalty(req, frequency_penalty) ==
    IF f32_lt(frequency_penalty, F32(-20)) \/ f32_gt(frequency_penalty, F32(20))
    THEN Err(req)
    ELSE Ok([req EXCEPT !.frequency_penalty = frequency_penalty])

set_max_completion_tokens(req, n) == Ok([req EXCEPT !.max_completion_tokens = Some(n)])

set_parallel_tool_calls(req, b) == Ok([req EXCEPT !.parallel_tool_calls = b])

set_presence_penalty(req, presence_penalty) ==
    IF f32_lt(presence_penalty, F32(-20)) \/ f32_gt(presence_penalty, F32(20))
    THEN Err(req)
    ELSE Ok([req EXCEPT !.presence_penalty = presence_penalty])

set_reasoning_format(req, fmt) == Ok([req EXCEPT !.reasoning_format = Some(fmt)])

set_response_format(req, fmt) == Ok([req EXCEPT !.response_format = Some(fmt)])

set_seed(req, seed) == Ok([req EXCEPT !.seed = Some(seed)])

set_service_tier(req, tier) == Ok([req EXCEPT !.service_tier = Some(tier)])

set_temperature(req, temperature) ==
    IF f32_lt(temperature, F32(0)) \/ f32_gt(temperature, F32(20))
    THEN Err(req)
    ELSE Ok([req EXCEPT !.temperature = temperature])

set_top_p(req, top_p) ==
    IF f32_lt(top_p, F32(0)) \/ f32_gt(top_p, F32(10))
    THEN Err(req)
    ELSE Ok([req EXCEPT !.top_p = top_p])

set_tool_choice(req, tool_choice) == Ok([req EXCEPT !.tool_choice = Some(tool_choice)])

add_tool(req, tool) == Ok([req EXCEPT !.tools = Append(req.tools, tool)])

clear_tools(req) == Ok([req EXCEPT !.tools = <<>>])

get_temperature(req) == req.temperature
get_model(req) == req.model
get_frequency_penalty(req) == req.frequency_penalty
get_presence_penalty(req) == req.presence_penalty
get_top_p(req) == req.top_p

(***************************************************************************)
(* serde_json serialisation of the ChatRequest (derive(Serialize)).        *)
(* A JSON member is absent, null or carries a value.                       *)
(***************************************************************************)
JAbsent == <<"absent", <<>>>>
JNull == <<"null", <<>>>>
JVal(x) == <<"value", <<x>>>>

\* An Option field: None is written as null.
ser_option(o) == IF o = None THEN JNull ELSE JVal(o[1])

\* An Option field with skip_serializing_if = "Option::is_none".
ser_option_skip(o) == IF o = None THEN JAbsent ELSE JVal(o[1])

\* serde_json writes a non-finite f32 as null.
ser_f32(x) == IF x.nan THEN JNull ELSE JVal(x)

ser_ChatMessage(m) ==
    [role |-> JVal(m.role),
     content |-> ser_option(m.content),
     tool_calls |-> ser_option_skip(m.tool_calls),
     tool_call_id |-> ser_option_skip(m.tool_call_id)]

ser_ChatRequest(req) ==
    [model |-> JVal(req.model),
     messages |-> JVal([i \in 1..Len(req.messages) |-> ser_ChatMessage(req.messages[i])]),
     frequency_penalty |-> ser_f32(req.frequency_penalty),
     max_completion_tokens |-> ser_option(req.max_completion_tokens),
     parallel_tool_calls |-> JVal(req.parallel_tool_calls),
     presence_penalty |-> ser_f32(req.presence_penalty),
     reasoning_format |-> ser_option_skip(req.reasoning_format),
     response_format |-> ser_option_skip(req.response_format),
     seed |-> ser_option_skip(req.seed),
     service_tier |-> ser_option_skip(req.service_tier),
     stream |-> JVal(req.stream),
     temperature |-> ser_f32(req.temperature),
     top_p |-> ser_f32(req.top_p),
     tool_choice |-> ser_option_skip(req.tool_choice),
     tools |-> IF req.tools = <<>> THEN JAbsent ELSE JVal(req.tools)]

(***************************************************************************)
(* The service's JSON documents and their serde decoding.                  *)
(*                                                                         *)
(* A document is a JSON object described by the members the decoders read: *)
(*   error   : absent, or the object under "error"                         *)
(*   rest    : whether id, object, created, model, system_fingerprint and  *)
(*             x_groq are all there and well typed                         *)
(*   choices : absent, or the array under "choices"                        *)
(* A member holding a ChatMessage is absent, null, malformed ("bad": an    *)
(* object that is no ChatMessage, such as {}), or a message ("msg").       *)
(***************************************************************************)
FieldAbsent == [tag |-> "absent", val |-> <<>>]
FieldNull == [tag |-> "null", val |-> <<>>]
FieldBad == [tag |-> "bad", val |-> <<>>]
FieldMsg(m) == [tag |-> "msg", val |-> <<m>>]

MsgDelta == [role |-> "assistant", content |-> Some("hi"), tool_calls |-> None,
             tool_call_id |-> None]
MsgFull == [role |-> "assistant", content |-> Some("hi there"), tool_calls |-> None,
            tool_call_id |-> None]

MessageFields == {FieldAbsent, FieldNull, FieldBad, FieldMsg(MsgDelta), FieldMsg(MsgFull)}
ChoiceJsons == [delta : MessageFields, message : MessageFields]

ErrBadRequest == [message |-> Some("bad request"), type |-> Some("invalid_request_error"),
                  param |-> None, code |-> None]
ErrRateLimit == [message |-> Some("rate limit reached"), type |-> Some("tokens"),
                 param |-> Some("model"), code |-> Some("rate_limit_exceeded")]
ErrNoMessage == [message |-> None, type |-> Some("invalid_request_error"),
                 param |-> None, code |-> None]
ErrorJsons == {ErrBadRequest, ErrRateLimit, ErrNoMessage}

Doc(error, rest, choices) == [error |-> error, rest |-> rest, choices |-> choices]

\* Result<T, serde_json::Error>.
DOk(v) == [ok |-> TRUE, err |-> "", val |-> <<v>>]
DErr(e) == [ok |-> FALSE, err |-> e, val |-> <<>>]

\* Option<ChatMessage> with #[serde(default)]: an absent member and null both
\* give None; anything else must decode as a ChatMessage.
de_option_ChatMessage(f) ==
    CASE f.tag = "absent" -> DOk(None)
      [] f.tag = "null" -> DOk(None)
      [] f.tag = "bad" -> DErr("missing field role")
      [] OTHER -> DOk(Some(f.val[1]))

\* Option::or.
option_or(a, b) == IF a # None THEN a ELSE b

\* The slip of preferring message over delta.
resolve_message_swapped(delta, message) == option_or(message, delta)

\* helper.delta.or(helper.message)
resolve_message(delta, message) == option_or(delta, message)

\* impl Deserialize for ChatChoice.
de_ChatChoice(cj) ==
    LET delta == de_option_ChatMessage(cj.delta)
        message == de_option_ChatMessage(cj.message)
    IN IF ~delta.ok THEN DErr(delta.err)
       ELSE IF ~message.ok THEN DErr(message.err)
       ELSE LET resolved == resolve_message(delta.val[1], message.val[1])
            IN IF resolved = None
               THEN DErr("missing field delta or message")
               ELSE DOk([message |-> resolved[1]])

\* derive(Deserialize) for ChatResponse: the members are visited as they come,
\* so a choice that fails to decode fails the response; members that are
\* missing are reported once the object has been read.
de_ChatResponse(doc) ==
    LET cs == IF doc.choices = None THEN <<>> ELSE doc.choices[1]
        decoded == [i \in 1..Len(cs) |-> de_ChatChoice(cs[i])]
        failed == {i \in 1..Len(cs) : ~decoded[i].ok}
    IN IF failed # {}
       THEN DErr(decoded[CHOOSE i \in failed : \A j \in failed : i <= j].err)
       ELSE IF ~doc.rest THEN DErr("missing field id")
       ELSE IF doc.choices = None THEN DErr("missing field choices")
       ELSE DOk([choices |-> [i \in 1..Len(cs) |-> decoded[i].val[1]]])

\* derive(Deserialize) for ChatError and ChatErrorDetails: message and type
\* are required strings, param and code are optional; other members of the
\* document are ignored.
de_ChatError(doc) ==
    IF doc.error = None THEN DErr("missing field error")
    ELSE LET e == doc.error[1]
         IN IF e.message = None THEN DErr("missing field message")
            ELSE IF e.type = None THEN DErr("missing field type")
            ELSE DOk([error |-> [message |-> e.message[1], type |-> e.type[1],
                                 param |-> e.param, code |-> e.code]])

(***************************************************************************)
(* Text.  A text is a sequence of tokens: whitespace ("sp", and "nl"       *)
(* between the lines of a body), the marker `data:`, the sentinel          *)
(* `[DONE]`, a JSON document, or other characters ("junk").                *)
(***************************************************************************)
Tok(t) == [t |-> t, doc |-> <<>>]
JsonTok(d) == [t |-> "json", doc |-> <<d>>]
SP == Tok("sp")
NL == Tok("nl")
DATA == Tok("data:")
DONE == Tok("[DONE]")
JUNK == Tok("junk")

is_whitespace(tok) == tok.t \in {"sp", "nl"}

RECURSIVE trim_start(_)
trim_start(s) ==
    IF s # <<>> /\ is_whitespace(Head(s)) THEN trim_start(Tail(s)) ELSE s

RECURSIVE trim_end(_)
trim_end(s) ==
    IF s # <<>> /\ is_whitespace(s[Len(s)]) THEN trim_end(SubSeq(s, 1, Len(s) - 1)) ELSE s

\* str::trim
trim(s) == trim_end(trim_start(s))

\* str::strip_prefix("data:")
strip_prefix_data(s) == IF s # <<>> /\ Head(s) = DATA THEN Some(Tail(s)) ELSE None

\* The JSON value of a text, as serde_json::from_str reads it: whitespace
\* around the one value is skipped; None when the text is anything else
\* (a syntax error).
json_value(s) ==
    LET core == trim(s)
    IN IF Len(core) = 1 /\ core[1].t = "json" THEN Some(core[1].doc[1]) ELSE None

\* serde_json::from_str::<ChatResponse>
from_str_ChatResponse(s) ==
    IF json_value(s) = None THEN DErr("syntax error")
    ELSE de_ChatResponse(json_value(s)[1])

\* serde_json::from_str::<ChatError>
from_str_ChatError(s) ==
    IF json_value(s) = None THEN DErr("syntax error")
    ELSE de_ChatError(json_value(s)[1])

(***************************************************************************)
(* The endpoint.  `server` is what the endpoint and the process            *)
(* environment will answer to a request: the HTTPS_PROXY variable, whether *)
(* the POST reaches the endpoint, the HTTP status, and the body as the     *)
(* transport delivers it, line by line (a line that is not ok is an I/O    *)
(* error of the transport, after which nothing more arrives).              *)
(***************************************************************************)
LineOk(s) == [ok |-> TRUE, line |-> s]
LineIoErr == [ok |-> FALSE, line |-> <<>>]

Reply(proxy, net_ok, status, body) ==
    [proxy |-> proxy, net_ok |-> net_ok, status |-> status, body |-> body]

\* The slip of leaving 400 itself out of the class.
is_client_error_above_400(status) == 400 < status /\ status <= 499

\* StatusCode::is_client_error
is_client_error(status) == 400 <= status /\ status <= 499

\* StatusCode::is_success
is_success(status) == 200 <= status /\ status <= 299

\* Response::text: the whole body as one text, the lines joined by their
\* newlines; None when the transport fails while the body is read.
RECURSIVE join_lines(_)
join_lines(body) ==
    IF body = <<>> THEN <<>>
    ELSE IF Len(body) = 1 THEN body[1].line
    ELSE body[1].line \o <<NL>> \o join_lines(Tail(body))

text(body) ==
    IF \E i \in 1..Len(body) : ~body[i].ok THEN None ELSE Some(join_lines(body))

\* Result<_, Box<dyn Error>> of send() and stream().
OutTransportError == [kind |-> "transport_error", err |-> "", chat_error |-> None, response |-> None]
OutDecodeError(e) == [kind |-> "decode_error", err |-> e, chat_error |-> None, response |-> None]
OutChatError(e) == [kind |-> "chat_error", err |-> "", chat_error |-> Some(e), response |-> None]
OutResponse(r) == [kind |-> "response", err |-> "", chat_error |-> None, response |-> Some(r)]
OutStream == [kind |-> "stream", err |-> "", chat_error |-> None, response |-> None]

Sent(wire, out) == [wire |-> wire, out |-> out]

\* Chat::send.  wire is the body handed to the POST, None when send returns
\* before it is built.
send(req, srv) ==
    IF srv.proxy = "invalid" THEN Sent(None, OutTransportError)
    ELSE LET body == ser_ChatRequest(req)
         IN IF ~srv.net_ok THEN Sent(Some(body), OutTransportError)
            ELSE IF is_client_error(srv.status)
            THEN LET raw_response == text(srv.body)
                 IN IF raw_response = None THEN Sent(Some(body), OutTransportError)
                    ELSE LET chat_error == from_str_ChatError(raw_response[1])
                         IN IF ~chat_error.ok
                            THEN Sent(Some(body), OutDecodeError(chat_error.err))
                            ELSE Sent(Some(body), OutChatError(chat_error.val[1]))
            ELSE LET raw_response == text(srv.body)
                 IN IF raw_response = None THEN Sent(Some(body), OutTransportError)
                    ELSE LET chat_response == from_str_ChatResponse(raw_response[1])
                         IN IF ~chat_response.ok
                            THEN Sent(Some(body), OutDecodeError(chat_response.err))
                            ELSE Sent(Some(body), OutResponse(chat_response.val[1]))

\* Chat::stream up to the point where the line stream is built.
stream(req, srv) ==
    LET body == ser_ChatRequest(req)
    IN IF ~srv.net_ok THEN Sent(Some(body), OutTransportError)
       ELSE IF is_client_error(srv.status)
       THEN LET raw_response == text(srv.body)
            IN IF raw_response = None THEN Sent(Some(body), OutTransportError)
               ELSE LET chat_error == from_str_ChatError(raw_response[1])
                    IN IF ~chat_error.ok
                       THEN Sent(Some(body), OutDecodeError(chat_error.err))
                       ELSE Sent(Some(body), OutChatError(chat_error.val[1]))
       ELSE Sent(Some(body), OutStream)

\* The slip of dropping a line that fails to decode.
on_line_decode_dropped(decoded) == IF decoded.ok THEN Some(decoded) ELSE None

\* What the closure yields for a line it has decoded: the Result in Some, a
\* decode failure being an item like any other.
on_line_decode(decoded) == Some(decoded)

\* The closure given to filter_map in Chat::stream: None drops the line,
\* Some(item) yields the item.
stream_closure(line_result) ==
    IF line_result.ok
    THEN LET trimmed == trim(line_result.line)
         IN IF trimmed = <<>> THEN None
            ELSE LET stripped == strip_prefix_data(trimmed)
                     json_str == IF stripped # None THEN trim(stripped[1]) ELSE trimmed
                 IN IF json_str = <<DONE>> THEN None
                    ELSE on_line_decode(from_str_ChatResponse(json_str))
    ELSE Some(DErr("io error"))

(***************************************************************************)
(* The stream returned by Chat::stream.  lines is what the transport will  *)
(* deliver, pos the number of lines taken from it so far, items the items  *)
(* the stream has yielded, each with the number of the line it came from.  *)
(***************************************************************************)
NoStream == [state |-> "none", lines |-> <<>>, pos |-> 0, items |-> <<>>]
OpenStream(body) == [state |-> "open", lines |-> body, pos |-> 0, items |-> <<>>]

\* One poll of the filter_map stream: lines are taken and given to the
\* closure until it yields an item, which poll_next returns; when the lines
\* run out the stream ends.
poll_next(rx) ==
    LET yielding == {j \in (rx.pos + 1)..Len(rx.lines) : stream_closure(rx.lines[j]) # None}
    IN IF yielding = {}
       THEN [rx EXCEPT !.state = "ended", !.pos = Len(rx.lines)]
       ELSE LET j == CHOOSE k \in yielding : \A m \in yielding : k <= m
            IN [rx EXCEPT !.pos = j,
                          !.items = Append(rx.items,
                                           [line |-> j, item |-> stream_closure(rx.lines[j])[1]])]

(***************************************************************************)
(* State.                                                                  *)
(*   chat_request : the ChatRequest owned by the Chat                      *)
(*   last         : the latest call on the Chat: its name, the request     *)
(*                  before it, its f32 or usize argument, what it returned,*)
(*                  and for send/stream the body posted and the outcome    *)
(*   calls        : the number of builder calls made so far                *)
(*   server       : what the endpoint answers                              *)
(*   stream_rx    : the stream the latest stream() call returned           *)
(*   main         : the example program's main(): where it stands in its   *)
(*                  loop, the tool calls of the response it is working on  *)
(*                  and the one it handles next, the number of sends made, *)
(*                  and the conversation as the latest send posted it      *)
(***************************************************************************)
MainAt(pc, tool_calls, i, sends, sent) ==
    [pc |-> pc, tool_calls |-> tool_calls, i |-> i, sends |-> sends, sent |-> sent]

\* No main() is running: the Chat is driven by its methods alone.
NoMain == MainAt("idle", <<>>, 0, 0, None)

Call(op, pre, f, n, ret, wire, out) ==
    [op |-> op, pre |-> pre, f |-> f, n |-> n, ret |-> ret, wire |-> wire, out |-> out]

GoodChoice == [delta |-> FieldMsg(MsgDelta), message |-> FieldAbsent]
GoodDoc == Doc(None, TRUE, Some(<<GoodChoice>>))
DefaultServer == Reply("unset", TRUE, 200, <<LineOk(<<JsonTok(GoodDoc)>>)>>)

InitChat ==
    /\ chat_request = Chat_new("deepseek-r1-distill-llama-70b")
    /\ last = Call("new", chat_request, F32(0), 0, "ok", None, None)
    /\ calls = 0
    /\ stream_rx = NoStream
    /\ main = NoMain

Init == InitChat /\ server = DefaultServer

\* A panic ends the program.
Running == last.ret # "panic"

\* A builder call with result res = [ret, req].
Builder(op, f, n, res) ==
    /\ Running
    /\ calls < MaxCalls
    /\ chat_request' = res.req
    /\ last' = Call(op, chat_request, f, n, res.ret, None, None)
    /\ calls' = calls + 1
    /\ UNCHANGED <<server, stream_rx, main>>

SetChatMessages ==
    \E messages \in SeqsUpTo(Messages, MaxMsgs) :
        Builder("set_chat_messages", F32(0), 0, set_chat_messages(chat_request, messages))

AddChatMessage ==
    \E message \in Messages :
        Builder("add_chat_message", F32(0), 0, add_chat_message(chat_request, message))

ClearChatMessages ==
    Builder("clear_chat_messages", F32(0), 0, clear_chat_messages(chat_request))

RemoveLastNChatMessages ==
    \E n \in 0..MaxRemove, overflow_checks \in BOOLEAN :
        Builder("remove_last_n_chat_messages", F32(0), n,
                remove_last_n_chat_messages(chat_request, n, overflow_checks))

RemoveFirstNChatMessages ==
    \E n \in 0..MaxRemove :
        Builder("remove_first_n_chat_messages", F32(0), n,
                remove_first_n_chat_messages(chat_request, n))

RemoveLastChatMessage ==
    Builder("remove_last_chat_message", F32(0), 0, remove_last_chat_message(chat_request))

RemoveFirstChatMessage ==
    Builder("remove_first_chat_message", F32(0), 0, remove_first_chat_message(chat_request))

SetModel ==
    \E model \in Models : Builder("set_model", F32(0), 0, set_model(chat_request, model))

SetFrequencyPenalty ==
    \E v \in F32Samples :
        Builder("set_frequency_penalty", v, 0, set_frequency_penalty(chat_request, v))

SetMaxCompletionTokens ==
    Builder("set_max_completion_tokens", F32(0), 0, set_max_completion_tokens(chat_request, 256))

SetParallelToolCalls ==
    \E b \in BOOLEAN :
        Builder("set_parallel_tool_calls", F32(0), 0, set_parallel_tool_calls(chat_request, b))

SetPresencePenalty ==
    \E v \in F32Samples :
        Builder("set_presence_penalty", v, 0, set_presence_penalty(chat_request, v))

SetReasoningFormat ==
    Builder("set_reasoning_format", F32(0), 0, set_reasoning_format(chat_request, "parsed"))

SetResponseFormat ==
    \E fmt \in ChatResponseFormats :
        Builder("set_response_format", F32(0), 0, set_response_format(chat_request, fmt))

SetSeed == Builder("set_seed", F32(0), 0, set_seed(chat_request, 7))

SetServiceTier ==
    \E tier \in ChatServiceTiers :
        Builder("set_service_tier", F32(0), 0, set_service_tier(chat_request, tier))

SetTemperature ==
    \E v \in F32Samples : Builder("set_temperature", v, 0, set_temperature(chat_request, v))

SetTopP ==
    \E v \in F32Samples : Builder("set_top_p", v, 0, set_top_p(chat_request, v))

SetToolChoice ==
    \E tc \in ToolChoices :
        Builder("set_tool_choice", F32(0), 0, set_tool_choice(chat_request, tc))

AddTool == Builder("add_tool", F32(0), 0, add_tool(chat_request, ToolSample))

ClearTools == Builder("clear_tools", F32(0), 0, clear_tools(chat_request))

\* send().await: the request is posted and the answer handled.
Send ==
    /\ Running
    /\ LET r == send(chat_request, server)
       IN last' = Call("send", chat_request, F32(0), 0, "ok", r.wire, Some(r.out))
    /\ UNCHANGED <<chat_request, calls, server, stream_rx, main>>

\* stream().await: on success the caller holds a new stream over the body.
Stream ==
    /\ Running
    /\ LET r == stream(chat_request, server)
       IN /\ last' = Call("stream", chat_request, F32(0), 0, "ok", r.wire, Some(r.out))
          /\ stream_rx' = IF r.out.kind = "stream" THEN OpenStream(server.body) ELSE stream_rx
    /\ UNCHANGED <<chat_request, calls, server, main>>

\* The caller pulls the next item of the stream it holds.
PollNext ==
    /\ Running
    /\ stream_rx.state = "open"
    /\ stream_rx' = poll_next(stream_rx)
    /\ UNCHANGED <<chat_request, last, calls, server, main>>

Next ==
    \/ SetChatMessages
    \/ AddChatMessage
    \/ ClearChatMessages
    \/ RemoveLastNChatMessages
    \/ RemoveFirstNChatMessages
    \/ RemoveLastChatMessage
    \/ RemoveFirstChatMessage
    \/ SetModel
    \/ SetFrequencyPenalty
    \/ SetMaxCompletionTokens
    \/ SetParallelToolCalls
    \/ SetPresencePenalty
    \/ SetReasoningFormat
    \/ SetResponseFormat
    \/ SetSeed
    \/ SetServiceTier
    \/ SetTemperature
    \/ SetTopP
    \/ SetToolChoice
    \/ AddTool
    \/ ClearTools
    \/ Send
    \/ Stream

Spec == Init /\ [][Next]_vars

(***************************************************************************)
(* The conversation alone: the operations on the message sequence.         *)
(***************************************************************************)
NextConv ==
    \/ SetChatMessages
    \/ AddChatMessage
    \/ ClearChatMessages
    \/ RemoveLastNChatMessages
    \/ RemoveFirstNChatMessages
    \/ RemoveLastChatMessage
    \/ RemoveFirstChatMessage

SpecConv == Init /\ [][NextConv]_vars

(***************************************************************************)
(* send() and stream() against every answer of the endpoint: the answer is *)
(* drawn when the behaviour starts, the calls then handle it.              *)
(***************************************************************************)
Statuses == {200, 400, 429, 500}

ErrorMembers == {None} \cup {Some(e) : e \in ErrorJsons}

\* Bodies that are one JSON document: error bodies, response bodies with
\* every combination of delta/message in their choices, and mixtures.
Docs ==
    {Doc(e, r, None) : e \in ErrorMembers, r \in BOOLEAN}
      \cup {Doc(None, TRUE, Some(cs)) : cs \in SeqsUpTo(ChoiceJsons, MaxChoices)}
      \cup {Doc(None, FALSE, Some(<<GoodChoice>>)),
            Doc(Some(ErrBadRequest), TRUE, Some(<<GoodChoice>>))}

\* The lines of a streamed body: blank, whitespace only, a frame with and
\* without the data: marker, the sentinel with and without it, a frame that
\* is no JSON, and a marker with nothing after it.
SampleLines ==
    {<<>>,
     <<SP>>,
     <<DATA, SP, JsonTok(GoodDoc)>>,
     <<JsonTok(GoodDoc), SP>>,
     <<DATA, SP, DONE>>,
     <<SP, DONE>>,
     <<DATA, SP, JUNK>>,
     <<DATA>>}

OkLines(ls) == [i \in 1..Len(ls) |-> LineOk(ls[i])]

Bodies ==
    {<<LineOk(<<JsonTok(d)>>)>> : d \in Docs}
      \cup {OkLines(ls) : ls \in SeqsUpTo(SampleLines, MaxLines)}
      \cup {Append(OkLines(ls), LineIoErr) : ls \in SeqsUpTo(SampleLines, MaxLines - 1)}

Servers ==
    {Reply("unset", TRUE, st, b) : st \in Statuses, b \in Bodies}
      \cup {Reply("invalid", TRUE, st, DefaultServer.body) : st \in Statuses}
      \cup {Reply("valid", ok, st, DefaultServer.body) : ok \in BOOLEAN, st \in Statuses}

InitHttp == InitChat /\ server \in Servers

NextHttp ==
    \/ Send
    \/ Stream
    \/ PollNext

SpecHttp == InitHttp /\ [][NextHttp]_vars

(***************************************************************************)
(* examples/chat.rs: main() sets the conversation and the tools up, then   *)
(* loops: send, and either answer each tool call of the first choice with  *)
(* a tool message and send again, or print the content and stop.           *)
(***************************************************************************)
\* The handlers, which print the configuration and return a fixed result.
run_tool1(configuration) == "result from tool1"
run_tool2(configuration) == "result from tool2"

\* function_map.get(&function_name): the handler registered under the name.
function_map_get(function_name) ==
    IF function_name \in {"run_tool1", "run_tool2"} THEN Some(function_name) ELSE None

\* function(arguments) for a handler found in the map.
call_handler(function, arguments) ==
    IF function = "run_tool1" THEN run_tool1(arguments) ELSE run_tool2(arguments)

ToolCall(id, name, arguments) ==
    [id |-> id, type |-> "function", function |-> [name |-> name, arguments |-> arguments]]

\* The request main() has built when it enters its loop.
main_setup ==
    LET c0 == Chat_new("deepseek-r1-distill-llama-70b")
        c1 == add_chat_message(c0, ChatMessage_new("system",
                                   "You are a network automation expert.", None)).req
        c2 == add_chat_message(c1, ChatMessage_new("user",
                                   "configure unnumbered bgp on the cisco nexus 9000 switch",
                                   None)).req
        c3 == set_tool_choice(c2, "required").req
        c4 == add_tool(c3, [name |-> "configure_cisco_switch", tool_type |-> "function"]).req
    IN add_tool(c4, [name |-> "configure_juniper_switch", tool_type |-> "function"]).req

\* The tool calls a response may carry: the names the handlers are
\* registered under and a name main() advertises as a tool, with one id per
\* call.
FunctionNames == {"run_tool1", "run_tool2", "configure_cisco_switch"}
CallIds == <<"call_1", "call_2", "call_3">>
ToolCallLists ==
    {[i \in 1..Len(ns) |-> ToolCall(CallIds[i], ns[i], "router bgp 65000")] :
        ns \in SeqsUpTo(FunctionNames, MaxToolCalls)}

AssistantMessage(content, tool_calls) ==
    [role |-> "assistant", content |-> content, tool_calls |-> tool_calls,
     tool_call_id |-> None]

MessageDoc(m) == Doc(None, TRUE, Some(<<[delta |-> FieldAbsent, message |-> FieldMsg(m)]>>))

\* What the endpoint may answer to a send of main(): a message with tool
\* calls, a final message, a Response without choices, an Error record with
\* a 400, or nothing at all.
MainDocs ==
    {MessageDoc(AssistantMessage(None, Some(tcs))) : tcs \in ToolCallLists}
      \cup {MessageDoc(AssistantMessage(Some("done"), None)),
            Doc(None, TRUE, Some(<<>>))}

MainServers ==
    {Reply("unset", TRUE, 200, <<LineOk(<<JsonTok(d)>>)>>) : d \in MainDocs}
      \cup {Reply("unset", TRUE, 400,
                  <<LineOk(<<JsonTok(Doc(Some(ErrBadRequest), FALSE, None))>>)>>),
            Reply("unset", FALSE, 200, <<>>)}

InitMain ==
    /\ chat_request = main_setup
    /\ last = Call("add_tool", chat_request, F32(0), 0, "ok", None, None)
    /\ calls = 5
    /\ server = DefaultServer
    /\ stream_rx = NoStream
    /\ main = MainAt("send", <<>>, 0, 0, None)

\* Where main() stands once send() has returned: a failure leaves main with
\* the `?`, choices[0] of a Response without choices panics, tool calls start
\* the for loop (which an empty list ends at once), and a message without
\* tool calls is printed and breaks the loop.
main_after_send(out, sends, sent) ==
    IF out.kind # "response" THEN MainAt("failed", <<>>, 0, sends, sent)
    ELSE IF out.response[1].choices = <<>> THEN MainAt("panicked", <<>>, 0, sends, sent)
    ELSE LET message == out.response[1].choices[1].message
         IN IF message.tool_calls = None THEN MainAt("done", <<>>, 0, sends, sent)
            ELSE IF message.tool_calls[1] = <<>>
            THEN MainAt("send", message.tool_calls[1], 1, sends, sent)
            ELSE MainAt("for", message.tool_calls[1], 1, sends, sent)

\* let response = chat.send().await?; and the `if let` on its tool calls.
MainSend ==
    /\ main.pc = "send"
    /\ main.sends < MaxSends
    /\ \E srv \in MainServers :
          LET r == send(chat_request, srv)
          IN /\ server' = srv
             /\ last' = Call("send", chat_request, F32(0), 0, "ok", r.wire, Some(r.out))
             /\ main' = main_after_send(r.out, main.sends + 1, Some(chat_request.messages))
    /\ UNCHANGED <<chat_request, calls, stream_rx>>

\* The tool message main() appends for a tool call, None when no handler is
\* registered under the call's function name.
tool_response(tool_call) ==
    LET function == function_map_get(tool_call.function.name)
    IN IF function = None THEN None
       ELSE Some(ChatMessage_new("tool",
                                 call_handler(function[1], tool_call.function.arguments),
                                 Some(tool_call.id)))

\* One round of `for tool_call in tool_calls`; after the last the loop goes
\* back to send.
MainToolCall ==
    /\ main.pc = "for"
    /\ LET tool_call == main.tool_calls[main.i]
           response == tool_response(tool_call)
       IN IF response = None
          THEN UNCHANGED <<chat_request, last, calls>>
          ELSE /\ chat_request' = add_chat_message(chat_request, response[1]).req
               /\ last' = Call("add_chat_message", chat_request, F32(0), 0, "ok", None, None)
               /\ calls' = calls + 1
    /\ main' = [main EXCEPT !.i = main.i + 1,
                            !.pc = IF main.i = Len(main.tool_calls) THEN "send" ELSE "for"]
    /\ UNCHANGED <<server, stream_rx>>

NextMain ==
    \/ MainSend
    \/ MainToolCall

SpecMain == InitMain /\ [][NextMain]_vars

(***************************************************************************)
(* Vocabulary of the properties.                                           *)
(***************************************************************************)
\* What is left of a line once it is trimmed and an optional data: marker
\* is stripped.
FramePayload(lr) ==
    LET t == trim(lr.line)
    IN IF t # <<>> /\ Head(t) = DATA THEN trim(Tail(t)) ELSE t

IsBlankLine(lr) == lr.ok /\ trim(lr.line) = <<>>
IsSentinelLine(lr) == lr.ok /\ FramePayload(lr) = <<DONE>>

\* The items the stream has yielded from line j.
ItemsFrom(j) == {k \in 1..Len(stream_rx.items) : stream_rx.items[k].line = j}

\* Lines 1..j all arrived and none of them is the sentinel.
NoEndUpTo(j) ==
    \A i \in 1..j : stream_rx.lines[i].ok /\ ~IsSentinelLine(stream_rx.lines[i])

\* The latest call was send() or stream(), its POST reached the endpoint and
\* an HTTP response came back.
Answered == last.op \in {"send", "stream"} /\ last.wire # None /\ server.net_ok

\* The body, when it is one JSON document and nothing else but whitespace.
BodyDoc ==
    IF text(server.body) = None THEN None
    ELSE LET core == trim(text(server.body)[1])
         IN IF Len(core) = 1 /\ core[1].t = "json" THEN core[1].doc ELSE None

\* The body is an Error record: {"error": {message, type, param?, code?}}.
BodyIsErrorRecord ==
    /\ BodyDoc # None
    /\ BodyDoc[1].error # None
    /\ BodyDoc[1].error[1].message # None
    /\ BodyDoc[1].error[1].type # None

HasMsg(f) == f.tag = "msg"

(***************************************************************************)
(* C1.  The item sequence of Chat::stream ends at the first sentinel line: *)
(* no item is produced from the sentinel line or from any line after it.   *)
(***************************************************************************)
C1_NoItemFromSentinelOnward ==
    \A k \in 1..Len(stream_rx.items) :
        \A i \in 1..stream_rx.items[k].line : ~IsSentinelLine(stream_rx.lines[i])

(***************************************************************************)
(* C2.  A Choice decodes to its delta when delta holds a message (also     *)
(* when message holds one too), else to its message when that holds one;   *)
(* a choice with neither fails the whole Response with the missing-field   *)
(* error.  Each choice is resolved on its own, and a delta and a message   *)
(* of the same content decode to the same Message.  (A member that is null *)
(* counts as not present: serde reads it as None.)                         *)
(***************************************************************************)
C2_ChoiceResolution ==
    (/\ Answered /\ last.op = "send" /\ ~is_client_error(server.status)
     /\ BodyDoc # None /\ BodyDoc[1].rest /\ BodyDoc[1].choices # None)
    => LET cs == BodyDoc[1].choices[1]
           out == last.out[1]
           neither(i) == cs[i].delta.tag \in {"absent", "null"}
                           /\ cs[i].message.tag \in {"absent", "null"}
           malformed(i) == cs[i].delta.tag = "bad" \/ cs[i].message.tag = "bad"
       IN /\ (\E i \in 1..Len(cs) : neither(i)) => out.kind = "decode_error"
          /\ (\E i \in 1..Len(cs) : neither(i) /\ \A j \in 1..i : ~malformed(j))
               => out.err = "missing field delta or message"
          /\ (\A i \in 1..Len(cs) : ~neither(i) /\ ~malformed(i)) => out.kind = "response"
          /\ out.kind = "response"
               => /\ Len(out.response[1].choices) = Len(cs)
                  /\ \A i \in 1..Len(cs) :
                        out.response[1].choices[i].message =
                            IF HasMsg(cs[i].delta) THEN cs[i].delta.val[1]
                            ELSE cs[i].message.val[1]

\* A response of two choices was decoded: the first with both members, of
\* different content, the second with a message only.
C2_Witness ==
    /\ Answered /\ last.op = "send" /\ last.out[1].kind = "response"
    /\ BodyDoc # None /\ BodyDoc[1].choices # None
    /\ LET cs == BodyDoc[1].choices[1]
       IN /\ Len(cs) = 2
          /\ HasMsg(cs[1].delta) /\ HasMsg(cs[1].message) /\ cs[1].delta # cs[1].message
          /\ ~HasMsg(cs[2].delta) /\ HasMsg(cs[2].message)

(***************************************************************************)
(* C3.  On a client-error status (4xx) send and stream behave alike: with  *)
(* the body read, the call fails with the ChatError carrying the body's    *)
(* message when the body is an Error record and with the decode failure    *)
(* when it is not; no Response and no stream is returned.  On a success    *)
(* status no ChatError is constructed.                                     *)
(***************************************************************************)
C3_ClientErrorPath ==
    Answered =>
        LET out == last.out[1]
        IN /\ (400 <= server.status /\ server.status <= 499 /\ text(server.body) # None)
                => /\ IF BodyIsErrorRecord
                      THEN /\ out.kind = "chat_error"
                           /\ out.chat_error[1].error.message = BodyDoc[1].error[1].message[1]
                      ELSE out.kind = "decode_error"
                   /\ out.response = None
                   /\ stream_rx.state = "none"
           /\ is_success(server.status) => out.kind # "chat_error"

\* stream() got a 400 with the Error record of the specification's example.
C3_Witness ==
    /\ Answered /\ last.op = "stream" /\ server.status = 400
    /\ BodyIsErrorRecord
    /\ last.out[1].kind = "chat_error"
    /\ last.out[1].chat_error[1].error.message = "bad request"

(***************************************************************************)
(* C4.  A validated setter called with v: when lo <= v <= hi it returns Ok *)
(* and its getter then returns v; for any value that does not satisfy      *)
(* lo <= v <= hi it returns an error and the whole configuration is what   *)
(* it was before the call.                                                 *)
(***************************************************************************)
C4_ValidatedSetters ==
    LET v == last.f
        checked(op, lo, hi, got) ==
            last.op = op =>
                IF f32_le(lo, v) /\ f32_le(v, hi)
                THEN last.ret = "ok" /\ got = v
                ELSE last.ret = "err" /\ chat_request = last.pre
    IN /\ checked("set_temperature", F32(0), F32(20), get_temperature(chat_request))
       /\ checked("set_top_p", F32(0), F32(10), get_top_p(chat_request))
       /\ checked("set_frequency_penalty", F32(-20), F32(20),
                  get_frequency_penalty(chat_request))
       /\ checked("set_presence_penalty", F32(-20), F32(20),
                  get_presence_penalty(chat_request))

(***************************************************************************)
(* C5.  The body posted by stream() carries stream = true and the body     *)
(* posted by send() carries stream = false; every other member is the      *)
(* serialised member of the builder's current request.                     *)
(***************************************************************************)
C5_StreamFlagOnTheWire ==
    (last.op \in {"send", "stream"} /\ last.wire # None)
    => last.wire[1] =
         [ser_ChatRequest(chat_request) EXCEPT !.stream = JVal(last.op = "stream")]

(***************************************************************************)
(* C6.  Removing n > N messages from a conversation of N, from either end, *)
(* completes without a panic and leaves the conversation empty or          *)
(* unchanged.                                                              *)
(***************************************************************************)
C6_RemoveMoreThanHeld ==
    (/\ last.op \in {"remove_last_n_chat_messages", "remove_first_n_chat_messages"}
     /\ last.n > Len(last.pre.messages))
    => /\ last.ret # "panic"
       /\ get_chat_messages(chat_request) \in {<<>>, last.pre.messages}

(***************************************************************************)
(* C7.  remove_last_n_chat_messages(K) on a conversation of N >= K         *)
(* appended messages leaves number_of_chat_messages = N - K and            *)
(* get_chat_messages equal to the first N - K messages, in order.          *)
(***************************************************************************)
C7_RemoveLastKeepsPrefix ==
    (last.op = "remove_last_n_chat_messages" /\ last.n <= Len(last.pre.messages))
    => LET N == Len(last.pre.messages)
           K == last.n
       IN /\ last.ret = "ok"
          /\ number_of_chat_messages(chat_request) = N - K
          /\ get_chat_messages(chat_request) = [i \in 1..(N - K) |-> last.pre.messages[i]]

\* Two different messages were appended and the last one removed.
C7_Witness ==
    /\ last.op = "remove_last_n_chat_messages"
    /\ last.n = 1
    /\ Len(last.pre.messages) = 2
    /\ last.pre.messages[1] # last.pre.messages[2]
    /\ get_chat_messages(chat_request) = <<last.pre.messages[1]>>

(***************************************************************************)
(* C8.  Whenever the status is not a success status and the body is an     *)
(* Error record, send and stream fail with the ChatError carrying the      *)
(* body's message, type, param and code.                                   *)
(***************************************************************************)
C8_AnyFailureStatusIsServiceError ==
    (Answered /\ ~is_success(server.status) /\ BodyIsErrorRecord)
    => /\ last.out[1].kind = "chat_error"
       /\ LET e == last.out[1].chat_error[1].error
              b == BodyDoc[1].error[1]
          IN e = [message |-> b.message[1], type |-> b.type[1],
                  param |-> b.param, code |-> b.code]

(***************************************************************************)
(* C9.  In Chat::stream, up to the sentinel or the transport's end, every  *)
(* line that is neither blank nor the sentinel yields exactly one item at  *)
(* its place: the decoded Response when it decodes, an error item when it  *)
(* does not, after which the later lines still yield theirs; blank lines   *)
(* yield nothing, and the items come in the order of their lines.          *)
(***************************************************************************)
C9_OneItemPerFrameInOrder ==
    /\ \A k \in 1..(Len(stream_rx.items) - 1) :
          stream_rx.items[k].line < stream_rx.items[k + 1].line
    /\ \A j \in 1..stream_rx.pos :
          (stream_rx.lines[j].ok /\ NoEndUpTo(j - 1))
          => IF IsBlankLine(stream_rx.lines[j]) \/ IsSentinelLine(stream_rx.lines[j])
             THEN ItemsFrom(j) = {}
             ELSE /\ Cardinality(ItemsFrom(j)) = 1
                  /\ \A k \in ItemsFrom(j) :
                        LET payload == FramePayload(stream_rx.lines[j])
                            item == stream_rx.items[k].item
                        IN IF Len(payload) = 1 /\ payload[1].t = "json"
                              /\ de_ChatResponse(payload[1].doc[1]).ok
                           THEN item = de_ChatResponse(payload[1].doc[1])
                           ELSE ~item.ok

\* A line that does not decode gave an error item and a later line, before
\* any sentinel, gave its decoded item.
C9_Witness ==
    \E k \in 1..(Len(stream_rx.items) - 1) :
        /\ stream_rx.lines[stream_rx.items[k].line].ok
        /\ ~stream_rx.items[k].item.ok
        /\ stream_rx.items[k + 1].item.ok
        /\ NoEndUpTo(stream_rx.items[k + 1].line)

(***************************************************************************)
(* C10.  Every Response send() returns, and every decoded item of the      *)
(* stream, has at least one choice.                                        *)
(***************************************************************************)
C10_ChoicesNeverEmpty ==
    /\ (last.op = "send" /\ last.out[1].kind = "response")
          => Len(last.out[1].response[1].choices) >= 1
    /\ \A k \in 1..Len(stream_rx.items) :
          stream_rx.items[k].item.ok => Len(stream_rx.items[k].item.val[1].choices) >= 1

(***************************************************************************)
(* C11.  In the loop of main(), when a send returned a first choice whose  *)
(* message carries k >= 1 tool calls, then by the time main() is about to  *)
(* send again exactly k tool messages have been appended to the            *)
(* conversation that send posted, one per call in call order, each with    *)
(* the tool_call_id of its call; so the conversation is never the one the  *)
(* previous send posted.                                                   *)
(***************************************************************************)
C11_ToolCallsAnsweredBeforeResend ==
    (main.pc = "send" /\ main.sent # None /\ Len(main.tool_calls) >= 1)
    => LET before == main.sent[1]
           now == get_chat_messages(chat_request)
           k == Len(main.tool_calls)
       IN /\ Len(now) = Len(before) + k
          /\ \A i \in 1..Len(before) : now[i] = before[i]
          /\ \A i \in 1..k :
                /\ now[Len(before) + i].role = "tool"
                /\ now[Len(before) + i].tool_call_id = Some(main.tool_calls[i].id)
          /\ now # before

====
